---- MODULE Spec2Model ----
\* Model of gaffer's dispatcher: the source manager (src/src/source.rs: channel
\* intake, recurring jobs, merging, priority sort) and the supervisor
\* (src/src/runner.rs: steal under exclusion and concurrency limits), driven
\* by the worker pool's dispatch loop.
\*
\* Time is a discrete clock `now`.  Clock reads made inside one section that
\* runs without blocking return the same instant; the clock advances while the
\* loader is outside load or blocked on the channel.
EXTENDS Integers, Sequences, FiniteSets, TLC

----------------------------------------------------------------------------
\* Bounds of the model.

\* thread_num: the number of worker slots.
ThreadNum == 2
\* How many jobs producers send in all.
MaxSent == 2
\* The longest queue an enqueue is tried on.
MaxQueue == 3
\* The clock runs from 0 to MaxTime.
MaxTime == 3

\* Duration::from_secs(5), in clock units.
IdleTimeout == 5

\* The u8 priorities and keys jobs are built from.
Priorities == {1, 2}
Keys == {1, 2}

\* Option<T>: None is the empty sequence, Some(x) the one-element sequence.
None == <<>>
Some(x) == <<x>>

\* A job value: its priority and its key.  The key is what exclusion() returns
\* and what a keyed merge function compares (the char of Tester2).
Jobs == [pri : Priorities, key : Keys]

priority(j) == j.pri
exclusion(j) == j.key

Max(a, b) == IF a >= b THEN a ELSE b
MinOf(S) == CHOOSE x \in S : \A y \in S : x <= y

\* A removal that leaves the sequence as it is.
RemoveAtKept(s, i) == s

RemoveAt(s, i) == SubSeq(s, 1, i - 1) \o SubSeq(s, i + 1, Len(s))

----------------------------------------------------------------------------
\* State.

VARIABLES
    queue,              \* Supervisor.queue: the pending jobs
    concurrency_limit,  \* Supervisor.concurrency_limit: priority -> Option<u8>
    chan,               \* jobs sent on the channel and not yet received
    senders,            \* TRUE while a Sender is alive
    merge_fn,           \* Receiver.merge_fn: "none", "eq" or "key"
    recurring,          \* SourceManager.recurring: entries job, interval, last_enqueue
    now,                \* Instant::now()
    running,            \* the pool's slots: Option<exclusion key> per worker
    pc,                 \* where the loader thread is
    wait_for_new,       \* load's argument, kept while load is blocked
    timeout,            \* the timeout load computed, kept while load is blocked
    deadline,           \* the instant the blocking wait or the sleep ends
    guard,              \* load's MutexGuard on the scheduler: "held", "unlocked"
                        \* (MutexGuard::unlocked) or "dropped" (load is not running)
    unsorted,           \* the queue as the last load pass handed it to sort_priority
    pass,               \* the last load pass: when it was called, with which
                        \* flag and whether a sender was alive then, how its
                        \* wait ended, when it returned, what it
                        \* received, the registry as collection found it, the
                        \* entries that emitted
    last_emit,          \* per recurring entry, when it emitted its last two clones
    last_reset,         \* per recurring entry, when a job from the channel last
                        \* reset it
    before,             \* the queue as the last enqueue found it
    batch,              \* what the last steal returned
    sent                \* how many jobs producers have sent

vars == <<queue, concurrency_limit, chan, senders, merge_fn, recurring, now,
          running, pc, wait_for_new, timeout, deadline, guard, unsorted, pass,
          last_emit, last_reset, before, batch, sent>>

\* What is fixed when the pool is built.
config == <<concurrency_limit, merge_fn>>
\* The state of a load pass that is blocked.
blocking == <<wait_for_new, timeout, deadline, guard>>
\* What a load pass leaves for the properties to read.
passed == <<unsorted, pass, last_emit, last_reset>>

----------------------------------------------------------------------------
\* runner.rs: Supervisor::steal

working_count(run) == Cardinality({i \in DOMAIN run : run[i] # None})

\* The number of values of a u8.
U8 == 256

\* `working_count as u8`
AsU8(n) == n % U8

\* A throttle that skips every candidate that has a cap.
ThrottledWhenCapped(job, run, climit) == climit[priority(job)] # None

\* The candidate is skipped because of its concurrency limit.
Throttled(job, run, climit) ==
    LET max_concurrency == climit[priority(job)] IN
    /\ max_concurrency # None
    /\ AsU8(working_count(run)) >= max_concurrency[1]

\* The candidate is skipped because a running slot holds its exclusion key.
Excluded(job, run) == \E i \in DOMAIN run : run[i] = Some(exclusion(job))

RECURSIVE StealLoop(_, _, _, _, _, _)
StealLoop(q, skip, jobs, run, limit, climit) ==
    IF Len(jobs) < limit /\ skip < Len(q)
    THEN LET job == q[skip + 1] IN
         IF Throttled(job, run, climit)
         THEN StealLoop(q, skip + 1, jobs, run, limit, climit)
         ELSE IF Excluded(job, run)
         THEN StealLoop(q, skip + 1, jobs, run, limit, climit)
         ELSE StealLoop(RemoveAt(q, skip + 1), skip, Append(jobs, job), run, limit, climit)
    ELSE [queue |-> q, jobs |-> jobs]

steal(q, run, limit, climit) == StealLoop(q, 0, <<>>, run, limit, climit)

----------------------------------------------------------------------------
\* source.rs: sort_priority, a stable sort by Reverse(priority)

\* A sort that puts a job ahead of the queued jobs of its own priority.
RECURSIVE InsertAheadOfEqual(_, _)
InsertAheadOfEqual(sorted, j) ==
    IF sorted = <<>> THEN <<j>>
    ELSE IF priority(Head(sorted)) > priority(j)
    THEN <<Head(sorted)>> \o InsertAheadOfEqual(Tail(sorted), j)
    ELSE <<j>> \o sorted

RECURSIVE InsertByPriority(_, _)
InsertByPriority(sorted, j) ==
    IF sorted = <<>> THEN <<j>>
    ELSE IF priority(Head(sorted)) >= priority(j)
    THEN <<Head(sorted)>> \o InsertByPriority(Tail(sorted), j)
    ELSE <<j>> \o sorted

RECURSIVE SortFrom(_, _)
SortFrom(sorted, rest) ==
    IF rest = <<>> THEN sorted
    ELSE SortFrom(InsertByPriority(sorted, Head(rest)), Tail(rest))

\* load returning without having sorted.
sort_priority_skipped(q) == q

\* A sort that loses the job that ends up last.
sort_priority_dropping(q) ==
    IF Len(q) > 1 THEN SubSeq(SortFrom(<<>>, q), 1, Len(q) - 1) ELSE q

sort_priority(q) == SortFrom(<<>>, q)

----------------------------------------------------------------------------
\* source.rs: the merge functions of the tests, and Receiver::enqueue_locked

\* merge_fn(new, existing): Success with the possibly changed existing entry, or
\* NotMerged handing the incoming job back.
MergeEq(new, existing) ==
    IF new = existing
    THEN [success |-> TRUE, existing |-> existing, job |-> new]
    ELSE [success |-> FALSE, existing |-> existing, job |-> new]

MergeKey(new, existing) ==
    IF new.key = existing.key
    THEN [success |-> TRUE,
          existing |-> [existing EXCEPT !.pri = Max(existing.pri, new.pri)],
          job |-> new]
    ELSE [success |-> FALSE, existing |-> existing, job |-> new]

ApplyMerge(mf, new, existing) ==
    IF mf = "eq" THEN MergeEq(new, existing) ELSE MergeKey(new, existing)

\* A walk that lets the last entry that accepts the job absorb it.
MergeWalkLast(q, i, job, mf) ==
    LET hits == {k \in i..Len(q) : ApplyMerge(mf, job, q[k]).success} IN
    IF hits = {} THEN Append(q, job)
    ELSE LET last == CHOOSE k \in hits : \A l \in hits : l <= k IN
         [q EXCEPT ![last] = ApplyMerge(mf, job, q[last]).existing]

RECURSIVE MergeWalk(_, _, _, _)
MergeWalk(q, i, job, mf) ==
    IF i > Len(q) THEN Append(q, job)
    ELSE LET r == ApplyMerge(mf, job, q[i]) IN
         IF r.success THEN [q EXCEPT ![i] = r.existing]
         ELSE MergeWalk(q, i + 1, r.job, mf)

\* An enqueue that sorts the queue after each job.
enqueue_locked_sorting(q, job, mf) ==
    sort_priority(IF mf # "none" THEN MergeWalk(q, 1, job, mf) ELSE Append(q, job))

enqueue_locked(q, job, mf) ==
    IF mf # "none" THEN MergeWalk(q, 1, job, mf) ELSE Append(q, job)

----------------------------------------------------------------------------
\* source.rs: IntervalRecurringJob and the recurring registry

matches(template, other) == template = other

\* An entry that emits as soon as its interval is over, not after it.
get_at_deadline(r, t) == IF t >= r.last_enqueue + r.interval THEN Some(r.job) ELSE None

get(r, t) == IF t > r.last_enqueue + r.interval THEN Some(r.job) ELSE None

\* An entry that ignores what is enqueued.
job_enqueued_ignored(r, job, t) == r

job_enqueued(r, job, t) ==
    IF matches(r.job, job) THEN [r EXCEPT !.last_enqueue = t] ELSE r

max_sleep(r) == r.last_enqueue + r.interval

\* The callback load passes to the receiver, and load's own notification loop.
NotifyAll(rec, job, t) == [i \in DOMAIN rec |-> job_enqueued(rec[i], job, t)]

soonest_recurring(rec) ==
    IF rec = <<>> THEN None ELSE Some(MinOf({max_sleep(rec[i]) : i \in DOMAIN rec}))

\* A timeout that is the idle timeout whatever the registry holds.
queue_timeout_idle(rec, t) == IdleTimeout

queue_timeout(rec, t) ==
    LET poll_time == soonest_recurring(rec) IN
    IF poll_time # None
    THEN IF poll_time[1] > t THEN poll_time[1] - t ELSE 0
    ELSE IdleTimeout

----------------------------------------------------------------------------
\* source.rs: Receiver

\* process_queue_ready: every job now in the channel, in order, is shown to the
\* callback and enqueued.  The result is the queue and the registry afterwards.
\* The calls a load pass makes for a job, in the order it makes them.
Call(name, job) == [call |-> name, job |-> job]

\* A drain that enqueues without showing the job to the callback.
RECURSIVE process_queue_ready_unseen(_, _, _, _, _, _)
process_queue_ready_unseen(q, rec, items, t, mf, log) ==
    IF items = <<>> THEN [queue |-> q, recurring |-> rec, log |-> log]
    ELSE process_queue_ready_unseen(enqueue_locked(q, Head(items), mf), rec,
                                    Tail(items), t, mf,
                                    log \o <<Call("enqueue_locked", Head(items))>>)

RECURSIVE process_queue_ready(_, _, _, _, _, _)
process_queue_ready(q, rec, items, t, mf, log) ==
    IF items = <<>> THEN [queue |-> q, recurring |-> rec, log |-> log]
    ELSE process_queue_ready(enqueue_locked(q, Head(items), mf),
                             NotifyAll(rec, Head(items), t), Tail(items), t, mf,
                             log \o <<Call("job_enqueued", Head(items)),
                                      Call("enqueue_locked", Head(items))>>)

\* A wait that is entered whenever the drain received nothing.
ShouldBlockUnlessNew(has_new, w, q) == ~has_new

\* process_queue_timeout blocks after its drain?
ShouldBlock(has_new, w, q) == ~has_new /\ (w \/ q = <<>>)

\* process_queue_timeout, Ok(item): what becomes of the queue.
ReceiveBlocked(q, item, mf) == Append(q, item)

----------------------------------------------------------------------------
\* source.rs: SourceManager::load, after the channel was dealt with

\* self.recurring.iter().flat_map(R::get): the entries that emit, in
\* registration order.
RECURSIVE DueFrom(_, _, _)
DueFrom(rec, i, t) ==
    IF i > Len(rec) THEN <<>>
    ELSE (IF get(rec[i], t) # None THEN <<i>> ELSE <<>>) \o DueFrom(rec, i + 1, t)

\* A collection that stops at the first entry that emits.
DueFirstOnly(rec, t) ==
    IF DueFrom(rec, 1, t) = <<>> THEN <<>> ELSE <<Head(DueFrom(rec, 1, t))>>

Due(rec, t) == DueFrom(rec, 1, t)

\* A push that puts every clone in the queue twice.
RECURSIVE PushRecurringTwice(_, _, _, _, _, _)
PushRecurringTwice(q, rec, templates, due, t, log) ==
    IF due = <<>> THEN [queue |-> q, recurring |-> rec, log |-> log]
    ELSE LET item == templates[Head(due)].job IN
         PushRecurringTwice(Append(Append(q, item), item), NotifyAll(rec, item, t),
                            templates, Tail(due), t,
                            log \o <<Call("job_enqueued", item), Call("push_back", item)>>)

\* Each collected clone is shown to every entry and pushed to the back.
RECURSIVE PushRecurring(_, _, _, _, _, _)
PushRecurring(q, rec, templates, due, t, log) ==
    IF due = <<>> THEN [queue |-> q, recurring |-> rec, log |-> log]
    ELSE LET item == templates[Head(due)].job IN
         PushRecurring(Append(q, item), NotifyAll(rec, item, t), templates, Tail(due), t,
                       log \o <<Call("job_enqueued", item), Call("push_back", item)>>)

\* Lines 106-113 of load: collect, notify, push, sort.  `received` are the jobs
\* this pass took from the channel and `log` the calls it made for them.
FinishLoad(q, rec, received, log, t) ==
    LET due == Due(rec, t)
        pushed == PushRecurring(q, rec, rec, due, t, log)
    IN [queue |-> sort_priority(pushed.queue),
        recurring |-> pushed.recurring,
        unsorted |-> pushed.queue,
        pass |-> [at |-> t, received |-> received, noted |-> rec, emitted |-> due,
                  log |-> pushed.log]]

----------------------------------------------------------------------------
\* The configurations a pool is built with.

\* |_| None (Supervisor::new) and |priority| Some(priority) (the throttle test).
LimitNone == [p \in Priorities |-> None]
LimitByPriority == [p \in Priorities |-> Some(p)]
Limits == {LimitNone, LimitByPriority}

MergeFns == {"none", "eq", "key"}

\* set_recurring(interval, last_enqueue, job), with Tester2(p, k) as the job.
\* The clock starts at 0: an entry last enqueued before that has a negative
\* last_enqueue (the tests' one_min_ago).
Entry(p, k, d, last) ==
    [job |-> [pri |-> p, key |-> k], interval |-> d, last_enqueue |-> last]

\* SourceManager::new(recurring, merge_fn) as a pool is spawned with it: no
\* merge function; no recurring job, or one that is due from the start.
PoolSources ==
    {<<"none", <<>>>>,
     <<"none", <<Entry(1, 1, 1, -2)>>>>}

\* SourceManager::new(recurring, merge_fn) as the source manager is loaded on
\* its own: with and without a merge function; no entry, one entry due from
\* the start, entries of different templates, entries sharing a template.
LoaderSources ==
    {<<"none", <<>>>>,
     <<"none", <<Entry(1, 1, 1, -2)>>>>,
     <<"none", <<Entry(1, 1, 1, 0), Entry(2, 2, 2, 0)>>>>,
     <<"none", <<Entry(2, 1, 1, 0), Entry(2, 1, 1, 0)>>>>,
     <<"key", <<>>>>,
     <<"key", <<Entry(1, 1, 1, -2)>>>>}

NoPass == [at |-> 0, received |-> <<>>, noted |-> <<>>, emitted |-> <<>>, log |-> <<>>,
           started |-> 0, flag |-> FALSE, alive |-> TRUE, outcome |-> "none"]

Range(s) == {s[i] : i \in DOMAIN s}

InitWith(limits, sources) ==
    /\ queue = <<>>
    /\ concurrency_limit \in limits
    /\ chan = <<>>
    /\ senders = TRUE
    /\ \E source \in sources :
        /\ merge_fn = source[1]
        /\ recurring = source[2]
    /\ now = 0
    /\ running = [i \in 1..ThreadNum |-> None]
    /\ pc = "idle"
    /\ wait_for_new = FALSE
    /\ timeout = 0
    /\ deadline = 0
    /\ guard = "dropped"
    /\ unsorted = <<>>
    /\ pass = NoPass
    /\ last_emit = [i \in DOMAIN recurring |-> <<>>]
    /\ last_reset = [i \in DOMAIN recurring |-> None]
    /\ before = <<>>
    /\ batch = <<>>
    /\ sent = 0

----------------------------------------------------------------------------
\* Producers and the clock.

Send(j) ==
    /\ senders
    /\ sent < MaxSent
    /\ chan' = Append(chan, j)
    /\ sent' = sent + 1
    /\ UNCHANGED <<queue, config, senders, recurring, now, running, pc, blocking,
                   passed, before, batch>>

DropSenders ==
    /\ senders
    /\ senders' = FALSE
    /\ UNCHANGED <<queue, config, chan, recurring, now, running, pc, blocking,
                   passed, before, batch, sent>>

\* recv_timeout returns as soon as there is a message, the senders are gone or
\* the timeout is over; thread::sleep returns when the timeout is over.
TickTo(horizon) ==
    /\ now < horizon
    /\ \/ pc = "idle"
       \/ pc = "blocked" /\ chan = <<>> /\ senders /\ now < deadline
       \/ pc = "sleeping" /\ now < deadline
    /\ now' = now + 1
    /\ UNCHANGED <<queue, config, chan, senders, recurring, running, pc, blocking,
                   passed, before, batch, sent>>

Tick == TickTo(MaxTime)

----------------------------------------------------------------------------
\* source.rs: SourceManager::load

LastTwo(s) == IF Len(s) > 2 THEN Tail(s) ELSE s

\* What process_queue_timeout leaves when it received nothing.
Untouched == [queue |-> queue, recurring |-> recurring, log |-> <<>>]

\* load returns: recurring collection and the sort, from the queue and the
\* registry the channel intake left.
ReturnFromLoad(d, received, started, flag, alive, outcome) ==
    LET f == FinishLoad(d.queue, d.recurring, received, d.log, now) IN
    /\ queue' = f.queue
    /\ recurring' = f.recurring
    /\ unsorted' = f.unsorted
    /\ pass' = [at |-> f.pass.at, received |-> f.pass.received,
                noted |-> f.pass.noted, emitted |-> f.pass.emitted,
                log |-> f.pass.log,
                started |-> started, flag |-> flag, alive |-> alive,
                outcome |-> outcome]
    /\ last_emit' = [i \in DOMAIN recurring |->
                        IF i \in Range(f.pass.emitted)
                        THEN LastTwo(Append(last_emit[i], now)) ELSE last_emit[i]]
    /\ last_reset' = [i \in DOMAIN recurring |->
                        IF \E k \in DOMAIN received : matches(recurring[i].job, received[k])
                        THEN Some(now) ELSE last_reset[i]]
    /\ pc' = "loaded"
    /\ wait_for_new' = FALSE
    /\ timeout' = 0
    /\ deadline' = 0
    /\ guard' = "dropped"

\* A wait for the channel that keeps the scheduler locked.
BlockOnChannelLocked(w, t) ==
    /\ pc' = "blocked"
    /\ wait_for_new' = w
    /\ timeout' = t
    /\ deadline' = now + t
    /\ guard' = "held"
    /\ pass' = [NoPass EXCEPT !.started = now, !.flag = w,
                              !.alive = senders, !.outcome = "blocked"]
    /\ UNCHANGED <<queue, recurring, chan, unsorted, last_emit, last_reset>>

\* MutexGuard::unlocked(queue, || self.recv.recv_timeout(timeout)): the wait
\* begins.
BlockOnChannel(w, t) ==
    /\ pc' = "blocked"
    /\ wait_for_new' = w
    /\ timeout' = t
    /\ deadline' = now + t
    /\ guard' = "unlocked"
    /\ pass' = [NoPass EXCEPT !.started = now, !.flag = w,
                              !.alive = senders, !.outcome = "blocked"]
    /\ UNCHANGED <<queue, recurring, chan, unsorted, last_emit, last_reset>>

\* load(wait_for_new, scheduler) up to its return or to the blocking wait of
\* process_queue_timeout.
Load(w) ==
    /\ pc = "idle"
    /\ batch' = <<>>
    /\ LET t == queue_timeout(recurring, now)
           has_new == chan # <<>>
           d == process_queue_ready(queue, recurring, chan, now, merge_fn, <<>>)
       IN IF t # 0 /\ ShouldBlock(has_new, w, d.queue)
          THEN BlockOnChannel(w, t)
          ELSE /\ chan' = <<>>
               /\ ReturnFromLoad(d, chan, now, w, senders, "ready")
    /\ UNCHANGED <<config, senders, now, running, before, sent>>

\* recv_timeout returned Ok(item).
RecvOk ==
    /\ pc = "blocked"
    /\ chan # <<>>
    /\ chan' = Tail(chan)
    /\ ReturnFromLoad([queue |-> ReceiveBlocked(queue, Head(chan), merge_fn),
                       recurring |-> NotifyAll(recurring, Head(chan), now),
                       log |-> <<Call("job_enqueued", Head(chan)),
                                 Call("push_back", Head(chan))>>],
                      <<Head(chan)>>, pass.started, wait_for_new, pass.alive, "received")
    /\ UNCHANGED <<config, senders, now, running, before, batch, sent>>

\* recv_timeout returned Err(Timeout).
RecvTimeout ==
    /\ pc = "blocked"
    /\ chan = <<>>
    /\ now >= deadline
    /\ ReturnFromLoad(Untouched, <<>>, pass.started, wait_for_new, pass.alive, "timeout")
    /\ UNCHANGED <<config, chan, senders, now, running, before, batch, sent>>

\* A disconnect after which the sleep lasts longer than the timeout.
RecvDisconnectedLong ==
    /\ pc = "blocked"
    /\ chan = <<>>
    /\ ~senders
    /\ pc' = "sleeping"
    /\ deadline' = now + timeout + 1
    /\ UNCHANGED <<queue, config, chan, senders, recurring, now, running,
                   wait_for_new, timeout, guard, passed, before, batch, sent>>

\* recv_timeout returned Err(Disconnected): sleep for the timeout, unlocked.
RecvDisconnected ==
    /\ pc = "blocked"
    /\ chan = <<>>
    /\ ~senders
    /\ pc' = "sleeping"
    /\ deadline' = now + timeout
    /\ UNCHANGED <<queue, config, chan, senders, recurring, now, running,
                   wait_for_new, timeout, guard, passed, before, batch, sent>>

SleepDone ==
    /\ pc = "sleeping"
    /\ now >= deadline
    /\ ReturnFromLoad(Untouched, <<>>, pass.started, wait_for_new, pass.alive, "slept")
    /\ UNCHANGED <<config, chan, senders, now, running, before, batch, sent>>

----------------------------------------------------------------------------
\* The worker pool's dispatch loop (spec.md 4.5).

EmptySlots(run) == {i \in DOMAIN run : run[i] = None}

\* Step 4: each returned job takes an empty slot, which records its key.
RECURSIVE Dispatch(_, _)
Dispatch(run, jobs) ==
    IF jobs = <<>> THEN run
    ELSE LET slot == MinOf(EmptySlots(run)) IN
         Dispatch([run EXCEPT ![slot] = Some(exclusion(Head(jobs)))], Tail(jobs))

\* Step 2: load(wait_for_new = any slot empty && queue empty).
PoolLoad == Load(EmptySlots(running) # {} /\ queue = <<>>)

\* Steps 3 and 4: steal(&running, empty_slot_count), then dispatch.
StealDispatch ==
    /\ pc = "loaded"
    /\ LET s == steal(queue, running, Cardinality(EmptySlots(running)), concurrency_limit) IN
       /\ queue' = s.queue
       /\ batch' = s.jobs
       /\ running' = Dispatch(running, s.jobs)
    /\ pc' = "idle"
    /\ unsorted' = <<>>
    /\ pass' = NoPass
    /\ UNCHANGED <<config, chan, senders, recurring, now, blocking, last_emit,
                   last_reset, before, sent>>

\* Step 6: a worker finished its job and clears its slot, under the mutex.
Complete(i) ==
    /\ pc # "loaded"
    /\ guard # "held"
    /\ running[i] # None
    /\ running' = [running EXCEPT ![i] = None]
    /\ UNCHANGED <<queue, config, chan, senders, recurring, now, pc, blocking,
                   passed, before, batch, sent>>

Init == InitWith(Limits, PoolSources)

Next ==
    \/ \E j \in Jobs : Send(j)
    \/ DropSenders
    \/ Tick
    \/ PoolLoad
    \/ RecvOk
    \/ RecvTimeout
    \/ RecvDisconnected
    \/ SleepDone
    \/ StealDispatch
    \/ \E i \in 1..ThreadNum : Complete(i)

Spec == Init /\ [][Next]_vars

----------------------------------------------------------------------------
\* The source manager and the supervisor driven directly, as the tests of
\* source.rs do: load(wait_for_new, ..) with either flag, then
\* steal(&[None, ..], limit).

LoaderLoad == \E w \in BOOLEAN : Load(w)

StealCall(limit) ==
    /\ pc = "loaded"
    /\ LET s == steal(queue, running, limit, concurrency_limit) IN
       /\ queue' = s.queue
       /\ batch' = s.jobs
    /\ pc' = "idle"
    /\ unsorted' = <<>>
    /\ pass' = NoPass
    /\ UNCHANGED <<config, chan, senders, recurring, now, running, blocking,
                   last_emit, last_reset, before, sent>>

InitLoader == InitWith({LimitNone}, LoaderSources)

NextLoader ==
    \/ \E j \in Jobs : Send(j)
    \/ DropSenders
    \/ Tick
    \/ LoaderLoad
    \/ RecvOk
    \/ RecvTimeout
    \/ RecvDisconnected
    \/ SleepDone
    \/ \E limit \in 0..ThreadNum : StealCall(limit)

SpecLoader == InitLoader /\ [][NextLoader]_vars

----------------------------------------------------------------------------
\* The receiver driven directly, as the merge tests of source.rs do: a job is
\* sent, process_queue_ready enqueues it, sort_priority sorts the queue.

\* Tester2(u8, char) with three chars.
MergeTestJobs == [pri : Priorities, key : {1, 2, 3}]

QueuesUpTo(n) == UNION {[1..k -> MergeTestJobs] : k \in 0..n}

InitEnqueue ==
    /\ queue \in QueuesUpTo(MaxQueue)
    /\ concurrency_limit = LimitNone
    /\ chan \in {<<j>> : j \in MergeTestJobs}
    /\ senders = TRUE
    /\ merge_fn \in MergeFns
    /\ recurring = <<>>
    /\ now = 0
    /\ running = [i \in 1..ThreadNum |-> None]
    /\ pc = "idle"
    /\ wait_for_new = FALSE
    /\ timeout = 0
    /\ deadline = 0
    /\ guard = "dropped"
    /\ unsorted = <<>>
    /\ pass = NoPass
    /\ last_emit = <<>>
    /\ last_reset = <<>>
    /\ before = queue
    /\ batch = <<>>
    /\ sent = 1

\* recv.process_queue_ready(&mut queue, |_| ())
ProcessReady ==
    /\ pc = "idle"
    /\ chan # <<>>
    /\ queue' = process_queue_ready(queue, recurring, chan, now, merge_fn, <<>>).queue
    /\ chan' = <<>>
    /\ before' = queue
    /\ pass' = [NoPass EXCEPT !.received = chan]
    /\ pc' = "enqueued"
    /\ UNCHANGED <<config, senders, recurring, now, running, blocking, unsorted,
                   last_emit, last_reset, batch, sent>>

\* sort_priority(&mut queue)
SortQueue ==
    /\ pc = "enqueued"
    /\ queue' = sort_priority(queue)
    /\ unsorted' = queue
    /\ pc' = "sorted"
    /\ UNCHANGED <<config, chan, senders, recurring, now, running, blocking, pass,
                   last_emit, last_reset, before, batch, sent>>

NextEnqueue == ProcessReady \/ SortQueue

SpecEnqueue == InitEnqueue /\ [][NextEnqueue]_vars

----------------------------------------------------------------------------
\* Properties of the dispatch loop.

\* A step of the loop in which steal ran.
StealStep == pc = "loaded" /\ pc' = "idle"

BusyCount(run) == Cardinality({i \in DOMAIN run : run[i] # None})

\* A job could be started beside what `run` holds: no slot holds its key and
\* its cap, if it has one, exceeds the number of busy slots.
RunnableAgainst(job, run, climit) ==
    /\ \A i \in DOMAIN run : run[i] # Some(job.key)
    /\ climit[job.pri] # None => climit[job.pri][1] > BusyCount(run)

\* C1: at every instant no two occupied slots of running hold equal exclusion
\* keys.
C1_Exclusion ==
    \A i, j \in DOMAIN running :
        (i # j /\ running[i] # None) => running[i] # running[j]

\* C2: whenever jobs move from the queue to running, then for each of them
\* whose priority has a cap, the number of busy workers after the whole batch
\* was dispatched is at most that cap.
C2_Throttle ==
    [][StealStep =>
        \A b \in DOMAIN batch' :
            concurrency_limit[batch'[b].pri] # None =>
                BusyCount(running') <= concurrency_limit[batch'[b].pri][1]]_vars

\* C3: when steal, called after load, returns a non-empty batch, no job left in
\* the queue has strictly higher priority than a returned job and was runnable
\* against the running array as it was before the batch.
C3_PriorityWithinRunnable ==
    [][(StealStep /\ batch' # <<>>) =>
        \A i \in DOMAIN queue', b \in DOMAIN batch' :
            ~(/\ queue'[i].pri > batch'[b].pri
              /\ RunnableAgainst(queue'[i], running, concurrency_limit))]_vars

\* C3 witness: steal returned a batch and left behind a job of higher priority
\* than one it returned (the job was not runnable).
C3_Witness ==
    /\ pc = "idle"
    /\ batch # <<>>
    /\ \E i \in DOMAIN queue, b \in DOMAIN batch : queue[i].pri > batch[b].pri

----------------------------------------------------------------------------
\* Properties of the source manager.

\* C4: with a merge function that returns Success exactly when incoming and
\* existing have the same key, the queue never holds two entries with the same
\* key, that is two entries for which the merge function returns Success.
C4_MergeFixedPoint ==
    merge_fn = "key" =>
        \A i, j \in DOMAIN queue :
            i # j => ~MergeKey(queue[i], queue[j]).success

\* load returned in this step.
LoadReturns == pc # "loaded" /\ pc' = "loaded"

C6_QueuedResetsRecurring ==
    [][LoadReturns =>
        \A i \in DOMAIN recurring :
            /\ IF \E k \in DOMAIN pass'.received : pass'.received[k] = recurring[i].job
               THEN /\ pass'.noted[i].last_enqueue = now
                    /\ i \notin Range(pass'.emitted)
               ELSE /\ pass'.noted[i].last_enqueue = recurring[i].last_enqueue
                    /\ i \in Range(pass'.emitted) <=>
                          now > recurring[i].last_enqueue + recurring[i].interval
            /\ (i \in Range(pass'.emitted) /\ last_reset'[i] # None) =>
                  now > last_reset'[i][1] + recurring[i].interval]_vars

\* C6 witness: in one pass an entry that was due (never reset, never emitted,
\* its interval over) matched the only job ever sent and was reset, while
\* another entry that did not match emitted.
C6_Witness ==
    /\ pc = "loaded"
    /\ sent = 1
    /\ \E i, j \in DOMAIN recurring :
          /\ i # j
          /\ pass.received = <<recurring[i].job>>
          /\ last_emit[i] = <<>>
          /\ pass.at > recurring[i].interval
          /\ recurring[i].last_enqueue = pass.at
          /\ recurring[j].job # recurring[i].job
          /\ j \in Range(pass.emitted)

SortedDesc(q) == \A i, j \in DOMAIN q : i < j => q[i].pri >= q[j].pri

\* The jobs of priority p, in the order q holds them.
OfPriority(q, p) == LET Is(j) == j.pri = p IN SelectSeq(q, Is)

\* C7: after every load pass returns, the queue is ordered by priority
\* descending and jobs of equal priority are in the relative order they had
\* before the sort.
C7_SortedStable ==
    pc = "loaded" =>
        /\ SortedDesc(queue)
        /\ \A p \in Priorities : OfPriority(queue, p) = OfPriority(unsorted, p)

\* C7 witness: the sort of a load pass moved jobs, and the queue holds two
\* different jobs of one priority.
C7_Witness ==
    /\ pc = "loaded"
    /\ queue # unsorted
    /\ \E i, j \in DOMAIN queue : i < j /\ queue[i].pri = queue[j].pri /\ queue[i] # queue[j]

Count(j, s) == Cardinality({i \in DOMAIN s : s[i] = j})

\* The entries of the registry `rec` that are due at t.
DueEntries(rec, t) == {i \in DOMAIN rec : t > rec[i].last_enqueue + rec[i].interval}

\* After a load pass, steal with limit at least the queue length returns a
\* sequence in non-increasing priority order that holds every job the pass
\* received and one clone for every entry due at collection.
StealReturnsPass ==
    \A limit \in Len(queue)..(Len(queue) + 1) :
        LET r == steal(queue, running, limit, concurrency_limit).jobs IN
        /\ SortedDesc(r)
        /\ \A j \in Jobs :
              Count(j, r) >= Count(j, pass.received)
                  + Cardinality({i \in DueEntries(pass.noted, pass.at) : pass.noted[i].job = j})

StealPreconditions ==
    /\ pc = "loaded"
    /\ \A i \in DOMAIN running : running[i] = None
    /\ concurrency_limit = LimitNone

\* C8 as stated: one load followed by steal with every slot empty, no caps
\* and limit at least the queue length returns all jobs received in that pass
\* and one clone of every due entry, in non-increasing priority order.
C8_Original == StealPreconditions => StealReturnsPass

\* C8 amended: the same, when no merge function is configured.
C8_LoadThenStealAll == (StealPreconditions /\ merge_fn = "none") => StealReturnsPass

\* C8 witness: without a merge function, a pass received a job and emitted a
\* clone, and the sort had to move them.
C8_Witness ==
    /\ StealPreconditions
    /\ merge_fn = "none"
    /\ pass.received # <<>>
    /\ pass.emitted # <<>>
    /\ queue # unsorted

----------------------------------------------------------------------------
\* Properties of the enqueue procedure.

\* The job the last process_queue_ready enqueued.
Incoming == pass.received[1]

\* The entries of the queue, as the enqueue found it, that accept the job.
Accepting == {i \in DOMAIN before : ApplyMerge(merge_fn, Incoming, before[i]).success}

\* C9: with no merge function the incoming job is appended to the tail; with
\* one, the first queued entry, in insertion order, that returns Success
\* absorbs it, the queue keeps its length and no other entry changes; if no
\* entry returns Success the job is appended to the tail.
C9_EnqueueProcedure ==
    pc = "enqueued" =>
        IF merge_fn = "none" \/ Accepting = {}
        THEN queue = Append(before, Incoming)
        ELSE LET first == MinOf(Accepting) IN
             /\ Len(queue) = Len(before)
             /\ queue[first] = ApplyMerge(merge_fn, Incoming, before[first]).existing
             /\ \A i \in DOMAIN before : i # first => queue[i] = before[i]

\* C9 witness: two queued entries would accept the job, and the later one has
\* a lower priority than the job, so being offered the job would change it.
C9_Witness ==
    /\ pc = "enqueued"
    /\ merge_fn = "key"
    /\ \E i, l \in Accepting : i < l /\ before[l].pri < Incoming.pri

\* Where a stable sort by descending priority puts the entry at index i of q.
SortedPosition(q, i) ==
    Cardinality({k \in DOMAIN q : q[k].pri > q[i].pri})
        + Cardinality({k \in DOMAIN q : k < i /\ q[k].pri = q[i].pri}) + 1

\* C10: under the keyed merge that raises priority to the maximum, a merge
\* leaves every entry at its queue position until the next sort; after that
\* sort the absorbing entry is behind every entry of its new priority that
\* preceded it in the queue and ahead of every entry of lower priority; and a
\* merge that does not change the priority leaves the order of a sorted queue
\* unchanged.
C10_MergeChangePriority ==
    (merge_fn = "key" /\ pc \in {"enqueued", "sorted"} /\ Accepting # {}) =>
        LET first == MinOf(Accepting)
            new_pri == Max(before[first].pri, Incoming.pri)
        IN /\ pc = "enqueued" =>
                /\ Len(queue) = Len(before)
                /\ \A i \in DOMAIN before : queue[i].key = before[i].key
                /\ queue[first].pri = new_pri
                /\ new_pri = before[first].pri => queue = before
           /\ pc = "sorted" =>
                LET at == SortedPosition(unsorted, first) IN
                /\ queue[at] = [before[first] EXCEPT !.pri = new_pri]
                /\ \A k \in DOMAIN queue : queue[k].pri < new_pri => k > at
                /\ OfPriority(SubSeq(queue, 1, at - 1), new_pri)
                      = OfPriority(SubSeq(unsorted, 1, first - 1), new_pri)
                /\ (new_pri = before[first].pri /\ SortedDesc(before)) => queue = before

\* C10 witness: in a sorted queue of distinct keys a merge raised an entry's
\* priority, and the sort moved it forward, behind an entry of its new
\* priority and ahead of an entry of lower priority.
C10_Witness ==
    /\ pc = "sorted"
    /\ merge_fn = "key"
    /\ SortedDesc(before)
    /\ \A i, j \in DOMAIN before : i # j => before[i].key # before[j].key
    /\ Accepting # {}
    /\ LET first == MinOf(Accepting)
           at == SortedPosition(unsorted, first)
       IN /\ Incoming.pri > before[first].pri
          /\ 1 < at
          /\ at < first
          /\ queue[at - 1].pri = queue[at].pri
          /\ queue[at + 1].pri < queue[at].pri

----------------------------------------------------------------------------
\* Properties of the wait for the channel.

\* load is called: it returns or it blocks in process_queue_timeout.
LoadCalled == pc = "idle" /\ pc' \in {"blocked", "loaded"}

\* C11: process_queue_timeout first drains every job already available; it
\* blocks on the channel only if the drain received nothing and (wait_for_new
\* is set or the queue is empty), and with a non-zero timeout it does block
\* then; if the drain received a job, or wait_for_new is false and the queue is
\* not empty, it returns without blocking; if it blocks and the timeout elapses
\* it returns with the queue unchanged.
C11_AwaitOne ==
    [][/\ LoadCalled =>
            /\ pc' = "blocked" =>
                  /\ chan = <<>>
                  /\ pass'.flag \/ queue = <<>>
                  /\ queue' = queue
            /\ pc' = "loaded" =>
                  /\ pass'.received = chan
                  /\ chan' = <<>>
                  /\ pass'.outcome = "ready"
            /\ queue_timeout(recurring, now) # 0 =>
                  (pc' = "blocked" <=> (chan = <<>> /\ (pass'.flag \/ queue = <<>>)))
            /\ (chan # <<>> \/ (~pass'.flag /\ queue # <<>>)) => pc' = "loaded"
       /\ (pc = "blocked" /\ pc' = "loaded" /\ pass'.outcome = "timeout") =>
            /\ now >= deadline
            /\ pass'.received = <<>>
            /\ Len(unsorted') = Len(queue) + Len(pass'.emitted)
            /\ SubSeq(unsorted', 1, Len(queue)) = queue
      ]_vars

\* C11 witness: a pass called with wait_for_new blocked although the queue was
\* not empty, its timeout elapsed and it returned the queue as it was.
C11_Witness ==
    /\ pc = "loaded"
    /\ pass.outcome = "timeout"
    /\ pass.flag
    /\ pass.at > pass.started
    /\ pass.emitted = <<>>
    /\ queue # <<>>

\* The entries of rec whose due instant is not after t.
ReadyAt(rec, t) == {i \in DOMAIN rec : rec[i].last_enqueue + rec[i].interval <= t}

----------------------------------------------------------------------------
\* Properties of a source whose producers are gone.

\* Every job of q is in r at least as often or, where a merge function may
\* have raised a queued entry or absorbed a job, r holds an entry of at least
\* its priority for every job of q.
KeepsJobs(q, r) ==
    IF merge_fn = "none"
    THEN \A j \in Range(q) : Count(j, r) >= Count(j, q)
    ELSE \A j \in Range(q) : \E e \in Range(r) : e.key = j.key /\ e.pri >= j.pri

\* C13: after every sender is dropped, a load pass still receives the jobs
\* sent before the drop and enqueues them (a merge function may let a queued
\* entry of the same key absorb one); a pass called after the drop that has to wait finds
\* the disconnect at once, sleeps for the computed timeout and returns no later
\* than that timeout after its call; the queued jobs stay in the queue and the
\* entries past due at its collection still emit.
C13_DisconnectNotFatal ==
    [][/\ (LoadCalled /\ ~senders) =>
            /\ pc' = "loaded" =>
                  /\ pass'.received = chan
                  /\ chan' = <<>>
                  /\ KeepsJobs(queue \o chan, queue')
                  /\ Len(queue') >= Len(queue)
                  /\ Range(pass'.emitted) = DueEntries(pass'.noted, now)
            /\ pc' = "blocked" =>
                  /\ chan = <<>>
                  /\ timeout' = queue_timeout(recurring, now)
       /\ (pc = "blocked" /\ ~pass.alive) =>
            /\ pc' = "sleeping"
            /\ now' = now
            /\ queue' = queue
       /\ (pc = "sleeping" /\ ~pass.alive) =>
            /\ now' <= pass.started + timeout
            /\ pc' # "sleeping" =>
                  /\ pc' = "loaded"
                  /\ pass'.at = pass.started + timeout
                  /\ KeepsJobs(queue, queue')
                  /\ Range(pass'.emitted) = DueEntries(recurring, now)
                  /\ Len(queue') = Len(queue) + Len(pass'.emitted)
      ]_vars

\* C13 witness: a pass called after the last sender was dropped, on a queue
\* that held a job, slept for its timeout and returned with the job still
\* queued.
C13_Witness ==
    /\ pc = "loaded"
    /\ ~pass.alive
    /\ pass.outcome = "slept"
    /\ pass.at > pass.started
    /\ Len(queue) > Len(pass.emitted)

----------------------------------------------------------------------------
\* Properties of a load pass.

\* The clones the entries `emitted` of the registry `rec` emit.
Clones(rec, emitted) == [k \in DOMAIN emitted |-> rec[emitted[k]].job]

\* C14: every job a load pass hands to the queue (received by the drain or by
\* the blocking wait, or emitted by a recurring entry) is passed to
\* job_enqueued of every recurring entry exactly once, immediately before it is
\* enqueued; nothing else enters the queue, and every entry whose template
\* matches such a job has last_enqueue at the time of the pass.
C14_ObservedOnce ==
    [][LoadReturns =>
        LET log == pass'.log
            jobs == pass'.received \o Clones(recurring, pass'.emitted)
        IN /\ Len(log) = 2 * Len(jobs)
           /\ \A k \in DOMAIN jobs :
                 /\ log[2 * k - 1] = Call("job_enqueued", jobs[k])
                 /\ log[2 * k].call \in {"enqueue_locked", "push_back"}
                 /\ log[2 * k].job = jobs[k]
           /\ Len(unsorted') <= Len(queue) + Len(jobs)
           /\ merge_fn = "none" => unsorted' = queue \o jobs
           /\ \A i \in DOMAIN recurring :
                 (\E k \in DOMAIN jobs : matches(recurring[i].job, jobs[k]))
                     => recurring'[i].last_enqueue = now
      ]_vars

\* C14 witness: one pass drained two jobs and emitted a clone, each observed
\* and then enqueued.
C14_Witness ==
    /\ pc = "loaded"
    /\ Len(pass.received) >= 2
    /\ pass.emitted # <<>>
    /\ Len(pass.log) >= 6
    /\ Len(queue) >= 3

\* C15: a job received by the blocking wait of process_queue_timeout is
\* enqueued by the enqueue procedure of a drained job: with a merge function
\* and a queued entry that returns Success it is absorbed and not appended,
\* otherwise it is appended to the tail.
C15_BlockingWaitEnqueues ==
    [][(pc = "blocked" /\ pc' = "loaded" /\ pass'.outcome = "received") =>
            unsorted' = enqueue_locked(queue, Head(chan), merge_fn)
                            \o Clones(recurring, pass'.emitted)
      ]_vars

\* C16: the loader's guard on the scheduler is unlocked exactly while load is
\* blocked on the channel or sleeping after a disconnect; load never leaves
\* the guard held where another thread runs, so a worker can clear its slot
\* during the wait; and whenever the guard is not held the queue another
\* thread finds is in priority order.
C16_LockScope ==
    /\ guard = "unlocked" <=> pc \in {"blocked", "sleeping"}
    /\ guard # "held"
    /\ SortedDesc(queue)
    /\ pc \in {"blocked", "sleeping"} => pass.log = <<>>

\* C16 witness: load was called with every worker busy and blocked on the
\* channel; before its deadline a worker finished and cleared its slot.
C16_Witness ==
    /\ pc = "blocked"
    /\ guard = "unlocked"
    /\ ~pass.flag
    /\ queue = <<>>
    /\ EmptySlots(running) # {}
    /\ now > pass.started
    /\ now < deadline

----------------------------------------------------------------------------
\* Supervisor::steal called on its own: a sorted queue, a running array, a
\* limit.

StealQueues == {q \in UNION {[1..k -> Jobs] : k \in 0..MaxQueue} : SortedDesc(q)}

\* A key no queued job has.
OtherKey == 0

\* The running arrays of a pool of ThreadNum workers, and of a pool with one
\* idle worker more than a u8 counts, whose busy workers hold another key.
RunningArrays ==
    [1..ThreadNum -> {None} \cup {Some(k) : k \in Keys}]
        \cup {[i \in 1..(U8 + 1) |-> IF i <= U8 THEN Some(OtherKey) ELSE None]}

InitSteal ==
    /\ queue \in StealQueues
    /\ concurrency_limit \in Limits
    /\ chan = <<>>
    /\ senders = TRUE
    /\ merge_fn = "none"
    /\ recurring = <<>>
    /\ now = 0
    /\ running \in RunningArrays
    /\ pc = "loaded"
    /\ wait_for_new = FALSE
    /\ timeout = 0
    /\ deadline = 0
    /\ guard = "dropped"
    /\ unsorted = <<>>
    /\ pass = NoPass
    /\ last_emit = <<>>
    /\ last_reset = <<>>
    /\ before = <<>>
    /\ batch = <<>>
    /\ sent = 0

StealLimits == 0..(MaxQueue + 1)

NextSteal == \E limit \in StealLimits : StealCall(limit)

SpecSteal == InitSteal /\ [][NextSteal]_vars

----------------------------------------------------------------------------
\* Properties of steal.

\* The indices of q whose jobs are runnable beside `run`.
RunnableIndices(q, run, climit) ==
    {i \in DOMAIN q : RunnableAgainst(q[i], run, climit)}

\* The n smallest members of the set of indices S.
FirstOf(S, n) == {i \in S : Cardinality({k \in S : k < i}) < n}

\* The entries of q at the indices S, in queue order.
EntriesAt(q, S) ==
    [n \in 1..Cardinality(S) |->
        q[CHOOSE i \in S : Cardinality({k \in S : k < i}) = n - 1]]

\* C17: steal(running, limit) returns exactly the first min(limit, k) runnable
\* jobs of the queue in queue order; a job is runnable iff no slot of running
\* holds its exclusion key and its cap is None or greater than the number of
\* occupied slots of running, counted once at entry; k is the number of
\* runnable jobs; a job that is not runnable is skipped.
C17_StealFirstRunnable ==
    [][\A limit \in StealLimits :
          StealCall(limit) =>
              batch' = EntriesAt(queue,
                           FirstOf(RunnableIndices(queue, running, concurrency_limit), limit))
      ]_vars

\* C18: steal changes the queue only by removing the jobs it returns: the
\* returned jobs are the entries at some indices of the queue, at most limit
\* of them, in queue order; the queue afterwards is the entries at the other
\* indices in their order; with limit 0 or an empty queue nothing is returned
\* and the queue is unchanged.
C18_StealFrame ==
    [][\A limit \in StealLimits :
          StealCall(limit) =>
              /\ \E S \in SUBSET DOMAIN queue :
                    /\ Cardinality(S) <= limit
                    /\ batch' = EntriesAt(queue, S)
                    /\ queue' = EntriesAt(queue, DOMAIN queue \ S)
              /\ Len(batch') + Len(queue') = Len(queue)
              /\ (limit = 0 \/ queue = <<>>) => (batch' = <<>> /\ queue' = queue)
      ]_vars

\* C18 witness: steal returned a job from behind a job of higher priority that
\* it left in the queue.
C18_Witness ==
    /\ pc = "idle"
    /\ batch # <<>>
    /\ queue # <<>>
    /\ queue[1].pri > batch[1].pri
    /\ Len(queue) >= 2

----------------------------------------------------------------------------
\* Properties of recurring collection.

\* C19: in each load pass exactly the entries with now > last_enqueue +
\* interval at collection, after the pass's channel intake and its
\* notifications, emit, in registration order; each emits exactly one clone of
\* its template, appended to the queue; an entry that is not due emits nothing
\* and keeps its last_enqueue unless a job matching its template was enqueued
\* in the pass.
C19_DueEntriesEmitOnce ==
    [][LoadReturns =>
        LET emitted == pass'.emitted
            clones == Clones(recurring, emitted)
            enqueued == pass'.received \o clones
            kept == Len(unsorted') - Len(clones)
        IN /\ Range(emitted) = DueEntries(pass'.noted, now)
           /\ \A k, l \in DOMAIN emitted : k < l => emitted[k] < emitted[l]
           /\ \A i \in DOMAIN recurring :
                 pass'.noted[i].last_enqueue =
                     IF \E k \in DOMAIN pass'.received :
                            matches(recurring[i].job, pass'.received[k])
                     THEN now ELSE recurring[i].last_enqueue
           /\ kept >= Len(queue)
           /\ kept <= Len(queue) + Len(pass'.received)
           /\ SubSeq(unsorted', kept + 1, Len(unsorted')) = clones
           /\ \A i \in DOMAIN recurring :
                 i \notin Range(emitted) =>
                     recurring'[i].last_enqueue =
                         IF \E k \in DOMAIN enqueued : matches(recurring[i].job, enqueued[k])
                         THEN now ELSE recurring[i].last_enqueue
      ]_vars

\* C19 witness: a pass at which the first of two entries was due and the
\* second was not: one clone, and the second entry as it was registered.
C19_Witness ==
    /\ pc = "loaded"
    /\ Len(recurring) = 2
    /\ pass.emitted = <<1>>
    /\ recurring[1].last_enqueue = pass.at
    /\ recurring[2].last_enqueue = 0
    /\ pass.at > 0
    /\ Count(recurring[1].job, queue) = 1

----------------------------------------------------------------------------
\* Properties of the time a load pass takes.

\* The timeout of a pass called at t with the registry rec.
TimeoutBound(rec, t) ==
    IF rec = <<>> THEN IdleTimeout
    ELSE Max(0, MinOf({rec[i].last_enqueue + rec[i].interval : i \in DOMAIN rec}) - t)

\* The timeout load computes is the saturating difference between the soonest
\* due instant and now, or the idle timeout with an empty registry, and the
\* wait on the channel ends by it.
TimeoutComputed ==
    /\ pc \in {"blocked", "sleeping"} => timeout = TimeoutBound(recurring, pass.started)
    /\ pc = "blocked" =>
          /\ deadline = pass.started + timeout
          /\ now <= deadline

\* C20: the time a load pass may block is bounded by timeout = max(0, min over
\* the entries of (last_enqueue + interval) - now) with a non-empty registry
\* and by the idle timeout of 5 seconds with an empty one, and load does not
\* block past the instant that lies this timeout after its call.
C20_BlockBound ==
    /\ TimeoutComputed
    /\ pc = "sleeping" => deadline <= pass.started + timeout

----------------------------------------------------------------------------
\* Properties of a batch.

\* C21: no two jobs returned by one steal call have equal exclusion keys, so
\* that placing the batch into free slots creates no duplicate key in running.
C21_BatchKeysDistinct ==
    [][\A limit \in StealLimits :
          StealCall(limit) =>
              \A k, l \in DOMAIN batch' :
                  k # l => exclusion(batch'[k]) # exclusion(batch'[l])
      ]_vars

----------------------------------------------------------------------------
\* The pool without recurring jobs, with a loader thread that keeps running,
\* a clock that advances and jobs whose execute terminates.  A worker that has
\* finished needs the mutex, which the loader releases in every round of its
\* loop: it gets it in the end (strong fairness).

InitLive == InitWith(Limits, {<<"none", <<>>>>})

\* The clock runs on past the idle timeout, so that an idle wait can end.
LiveTime == IdleTimeout + 1

TickLive == TickTo(LiveTime)

NextLive ==
    \/ \E j \in Jobs : Send(j)
    \/ DropSenders
    \/ TickLive
    \/ PoolLoad
    \/ RecvOk
    \/ RecvTimeout
    \/ RecvDisconnected
    \/ SleepDone
    \/ StealDispatch
    \/ \E i \in 1..ThreadNum : Complete(i)

Fairness ==
    /\ WF_vars(TickLive)
    /\ WF_vars(PoolLoad)
    /\ WF_vars(RecvOk)
    /\ WF_vars(RecvTimeout)
    /\ WF_vars(RecvDisconnected)
    /\ WF_vars(SleepDone)
    /\ WF_vars(StealDispatch)
    /\ \A i \in 1..ThreadNum : SF_vars(Complete(i))

SpecLive == InitLive /\ [][NextLive]_vars /\ Fairness

\* C22: with no recurring entries, finitely many submitted jobs, every
\* execute terminating, at least one worker and every cap None or at least 1,
\* the dispatch loop eventually dispatches every job in the queue: a queue
\* that holds jobs is eventually empty.
C22_EveryJobDispatched == (queue # <<>>) ~> (queue = <<>>)

\* C22 witness: a steal returned nothing although a worker was free and the
\* queue held a job: the job was skipped by the throttle or by exclusion.
C22_Witness ==
    /\ pc = "idle"
    /\ queue # <<>>
    /\ batch = <<>>
    /\ EmptySlots(running) # {}
    /\ recurring = <<>>

----------------------------------------------------------------------------
\* Conservation of jobs.

\* How many entries of s have the exclusion key k.
CountKey(k, s) == Cardinality({i \in DOMAIN s : s[i].key = k})

\* C23: over load and steal calls no job is lost or duplicated.  A load pass
\* adds to the queue exactly the jobs it received and the clones it emitted,
\* less the received jobs a merge function let a queued entry absorb (under
\* the keyed merge, a drained job whose key is already queued); every entry
\* queued before is still queued, the sort only permutes; steal splits the
\* queue into the jobs it returns and the jobs it leaves; nothing else changes
\* the queue.
C23_JobConservation ==
    [][/\ LoadReturns =>
            LET clones == Clones(recurring, pass'.emitted)
                handed == pass'.received \o clones
            IN /\ \A j \in Range(unsorted') : Count(j, queue') = Count(j, unsorted')
               /\ Len(queue') = Len(unsorted')
               /\ Len(queue') >= Len(queue) + Len(clones)
               /\ Len(queue') <= Len(queue) + Len(handed)
               /\ KeepsJobs(queue \o handed, queue')
               /\ (merge_fn = "none" \/ pass'.outcome = "received") =>
                     \A j \in Jobs : Count(j, queue') = Count(j, queue) + Count(j, handed)
               /\ (merge_fn = "key" /\ pass'.outcome # "received") =>
                     \A k \in Keys :
                         CountKey(k, queue') =
                             CountKey(k, queue) + CountKey(k, clones)
                               + (IF CountKey(k, queue) = 0 /\ CountKey(k, pass'.received) > 0
                                  THEN 1 ELSE 0)
       /\ StealStep =>
            /\ \A j \in Jobs : Count(j, queue) = Count(j, queue') + Count(j, batch')
            /\ Len(queue) = Len(queue') + Len(batch')
       /\ (~LoadReturns /\ ~StealStep) => queue' = queue
      ]_vars

\* C23 witness: under the keyed merge a pass received more jobs than the queue
\* it handed to the sort holds: a received job was absorbed, the other is
\* queued once.
C23_Witness ==
    /\ pc = "loaded"
    /\ merge_fn = "key"
    /\ Len(pass.received) > Len(unsorted)
    /\ queue # <<>>

\* C24: within one load pass, once a job matching the template of a recurring
\* entry has been notified and appended, whether it came from the channel or
\* is the clone of another entry, that entry emits no clone in the pass: two
\* due entries whose templates match each other produce one queued job.
C24_OneCloneForMatchingEntries ==
    [][LoadReturns =>
        LET emitted == pass'.emitted
            clones == Clones(recurring, emitted)
        IN \A n \in DOMAIN emitted :
              /\ \A k \in DOMAIN pass'.received :
                    ~matches(recurring[emitted[n]].job, pass'.received[k])
              /\ \A l \in 1..(n - 1) : ~matches(recurring[emitted[n]].job, clones[l])
      ]_vars

\* C25: the zero timeout and the dueness of the entries agree: whenever load
\* computes a zero timeout (some entry has last_enqueue + interval <= now) and
\* no job received in the pass matches an entry, the pass appends at least one
\* clone, also when now equals last_enqueue + interval.
C25_ZeroTimeoutEmits ==
    [][(/\ LoadCalled
        /\ ReadyAt(recurring, now) # {}
        /\ \A i \in DOMAIN recurring : \A k \in DOMAIN chan :
              ~matches(recurring[i].job, chan[k]))
          => (pc' = "loaded" /\ pass'.emitted # <<>>)
      ]_vars

----------------------------------------------------------------------------
\* Properties of the throttle.

\* C26: the throttle comparison of steal is exact for every length of the
\* running array: no job with cap Some(c) is returned when the number of
\* occupied slots is at least c, also when that number is 256 or more.
C26_ThrottleExact ==
    [][\A limit \in StealLimits :
          StealCall(limit) =>
              \A k \in DOMAIN batch' :
                  LET cap == concurrency_limit[priority(batch'[k])] IN
                  cap # None => BusyCount(running) < cap[1]
      ]_vars

====
